---- MODULE Spec2Model ----
(***************************************************************************)
(* Tri Viet: model of the mind-map component (src/components/MindMap.tsx)  *)
(* and of the learning path (src/unnamed/part_000, LearningPath.tsx).      *)
(*                                                                         *)
(* The component receives a tree `data` and, in an effect that depends on  *)
(* `data`, computes a layout in two recursive passes over the tree and     *)
(* publishes it with setLayout.                                            *)
(*                                                                         *)
(* A MindMapNode object is identified by a natural number (its object      *)
(* identity); the tree maps each identity to the object's fields.  The     *)
(* optional field `children` is an optional record field.                  *)
(*                                                                         *)
(* y coordinates are JavaScript numbers that hold dyadic rationals (sums   *)
(* and halvings of multiples of 50).  The model holds every y multiplied   *)
(* by YUnit, a power of two large enough for every halving to be exact.    *)
(*                                                                         *)
(* The learning path keeps a plan of lessons and the index of the current  *)
(* lesson in its state and in localStorage, under a key made of the grade  *)
(* and the subject selected.  An event handler is one action together with *)
(* the renders and effects that follow it; an awaited call of the AI is    *)
(* an element of `requests` until it returns.  A text the AI returns is    *)
(* known by what its prompt asked for.                                     *)
(*                                                                         *)
(* The application (src/App.tsx) keeps the language, the role and the goal *)
(* selected, and a library of saved items per role in localStorage, whose  *)
(* size in bytes is limited.                                               *)
(***************************************************************************)
EXTENDS Integers, Sequences, FiniteSets, TLC

\* ---------------------------------------------------------------- bounds
\* Largest tree the component is mounted with.
MaxNodes == 6
\* Largest tree a later change of the `data` prop brings.
MaxNewNodes == 2
\* LearningPath: the largest number of lessons of a generated plan, and of
\* calls of the AI that are under way at a time.
MaxLessons == 2
MaxRequests == 2
\* App: the model's value of STORAGE_LIMIT_BYTES (of constants.ts, line 3 of
\* App.tsx), in the bytes of the model's items, and the last value of the
\* clock.
STORAGE_LIMIT_BYTES == 12
MaxNow == 2

\* ------------------------------------------------------------- constants
NODE_WIDTH == 180
NODE_HEIGHT == 80
HORIZONTAL_SEPARATION == 220
VERTICAL_SEPARATION == 20

\* The padding added to the canvas in each direction (lines 129, 130).
CANVAS_MARGIN == 40

\* <g transform="translate(20, 20)">: the inset of the drawing in the canvas.
CANVAS_INSET == 20

\* y values are held multiplied by YUnit.
YUnit == 2 ^ (MaxNodes + 1)

VARIABLES
    data,           \* the `data` prop: the tree to draw
    layout,         \* the `layout` state of the component (NoLayout = null)
    effectPending,  \* the layout effect is scheduled (mount, or `data` changed)
    pass,           \* the locals of the last run of the effect that completed
    thrown,         \* the error the layout effect has thrown, "none" if none
    lastPass,       \* history: what the last completed run of the effect was
    view,           \* what the component has rendered last
    \* LearningPath (src/unnamed/part_000)
    offered,              \* the options of the grade and the subject select
    config,               \* the selected grade and subject
    plan,                 \* the lessons of the plan, [] if none
    currentLessonIndex,   \* index (from 0) of the lesson to take next
    markdownContent,      \* the lesson text on the screen, as a list of parts
    wordContent,          \* the same text for Word, as a list of parts
    images,               \* the image tags that have their image
    imageLoadingStates,   \* the image tags that are loading or have failed
    isReviewSessionActive, \* a specialised review lesson was asked for last
    isLoading,            \* "plan", "lesson" or "false"
    error,                \* the error message, "null" if none
    requests,             \* the calls of the AI that have not returned yet
    localStorage,         \* the item stored under each key, NoItem if none
    \* App (src/App.tsx) and the save button of Summarizer and ExamGenerator
    language,             \* the language selected, "null" if none
    userRole,             \* the role selected, "null" if none
    studentGoal,          \* the goal selected, "null" if none
    library,              \* the items of the library, newest first
    libraryUsage,         \* {used, total}
    libraryStorage,       \* localStorage under triVietLibrary_<role>
    now,                  \* what Date.now() returns
    saveButtonText,       \* the label of the save button: "save" or "saved"
    lastAdd               \* history: how the last call of addToLibrary ended

mmVars == <<data, layout, effectPending, pass, thrown, lastPass, view>>
lpVars == <<offered, config, plan, currentLessonIndex, markdownContent,
            wordContent, images, imageLoadingStates, isReviewSessionActive,
            isLoading, error, requests, localStorage>>
appVars == <<language, userRole, studentGoal, library, libraryUsage,
             libraryStorage, now, saveButtonText, lastAdd>>
vars == <<mmVars, lpVars, appVars>>

\* The state `layout` before the first setLayout.
NoLayout == [isNull |-> TRUE]
\* `pass` before the effect has run.
NoPass == [isNull |-> TRUE]

\* ------------------------------------------------------------ input trees
RECURSIVE SetToSortedSeq(_)
SetToSortedSeq(S) ==
    IF S = {} THEN <<>>
    ELSE LET m == CHOOSE x \in S : \A y \in S : x <= y
         IN <<m>> \o SetToSortedSeq(S \ {m})

\* Parent vectors of the ordered trees with n nodes, the nodes numbered in the
\* order a depth-first walk meets them (so no two trees of the set are the
\* same tree with other identities).
ParentVectors(n) ==
    { p \in [2..n -> 1..n] :
        \A j \in 2..n :
            /\ p[j] < j
            /\ \A i \in (p[j] + 1)..(j - 1) : p[i] >= p[j] }

ChildrenIn(p, n, k) == SetToSortedSeq({ j \in 2..n : p[j] = k })

\* A MindMapNode: title, and the optional children.  `absent` is the set of
\* childless nodes whose children field is missing; the other childless nodes
\* hold an empty array.
MindMapNode(p, n, absent, k) ==
    IF k \in absent
    THEN [title |-> k]
    ELSE [title |-> k, children |-> ChildrenIn(p, n, k)]

TreesOfSize(n) ==
    UNION { { [root |-> 1, node |-> [k \in 1..n |-> MindMapNode(p, n, absent, k)]]
              : absent \in SUBSET { k \in 1..n : \A j \in 2..n : p[j] # k } }
            : p \in ParentVectors(n) }

TreesUpTo(max) == UNION { TreesOfSize(n) : n \in 1..max }

Trees == TreesUpTo(MaxNodes)
NewTrees == TreesUpTo(MaxNewNodes)

\* `data` is typed MindMapNode, and the type is erased when the code runs: a
\* caller can hand the component null or undefined.
MissingRoots == { [isNull |-> TRUE], [isUndefined |-> TRUE] }

RECURSIVE AncestorsIn(_, _)
\* The node a and its ancestors, in the tree of the parent vector p.
AncestorsIn(p, a) == {a} \cup (IF a = 1 THEN {} ELSE AncestorsIn(p, p[a]))

\* Object graphs that are no trees: the trees of n nodes, one node given one
\* more child, which is the node itself or one of its ancestors.
CyclicOfSize(n) ==
    UNION { { [root |-> 1,
               node |-> [k \in 1..n |->
                           IF k = ab[1]
                           THEN [title |-> k,
                                 children |-> Append(ChildrenIn(p, n, k), ab[2])]
                           ELSE MindMapNode(p, n, {}, k)]]
              : ab \in { ab \in (1..n) \X (1..n) : ab[2] \in AncestorsIn(p, ab[1]) } }
            : p \in ParentVectors(n) }

CyclicInputs == UNION { CyclicOfSize(n) : n \in 1..MaxNewNodes }

\* The tree t with `children: []` written into every node that lacks the field.
AllEmpty(t) ==
    [t EXCEPT !.node =
        [k \in DOMAIN t.node |->
            IF "children" \in DOMAIN t.node[k] THEN t.node[k]
            ELSE [title |-> t.node[k].title, children |-> <<>>]]]

\* What the component can be mounted with, and what a later render can bring.
Inputs == Trees \cup MissingRoots \cup CyclicInputs
NewInputs == NewTrees \cup MissingRoots

\* --------------------------------------------------------- the two passes
\* `!node.children || node.children.length === 0`
NoChildren(t, node) ==
    \/ "children" \notin DOMAIN t.node[node]
    \/ Len(t.node[node].children) = 0

\* Map.prototype.set
MapSet(map, key, value) == (key :> value) @@ map

\* A changed leaf height: the box alone, without the gap below it.
LeafSubtreeHeightNoGap == NODE_HEIGHT

\* The height reserved for a node without children (line 73).
LeafSubtreeHeight == NODE_HEIGHT + VERTICAL_SEPARATION

RECURSIVE calculateInitialY(_, _, _)
RECURSIVE InitialYChildren(_, _, _, _, _)

\* node.children.forEach(child => subtreeHeight += calculateInitialY(child)),
\* from child i on.
InitialYChildren(t, children, i, nodeMap, subtreeHeight) ==
    IF i > Len(children)
    THEN [nodeMap |-> nodeMap, subtreeHeight |-> subtreeHeight]
    ELSE LET c == calculateInitialY(t, children[i], nodeMap)
         IN InitialYChildren(t, children, i + 1, c.nodeMap, subtreeHeight + c.ret)

\* A changed pass 1: a node with children reserves a slot of its own on top of
\* its children's.
calculateInitialYOwnSlot(t, node, nodeMap) ==
    LET r == IF NoChildren(t, node)
             THEN [nodeMap |-> nodeMap,
                   subtreeHeight |-> LeafSubtreeHeight]
             ELSE InitialYChildren(t, t.node[node].children, 1, nodeMap, LeafSubtreeHeight)
    IN [nodeMap |-> MapSet(r.nodeMap, node, [y |-> 0, subtreeHeight |-> r.subtreeHeight]),
        ret |-> r.subtreeHeight]

\* A changed pass 1: only a missing children field makes a leaf, an empty
\* array is summed over.
calculateInitialYAbsentOnly(t, node, nodeMap) ==
    LET r == IF "children" \notin DOMAIN t.node[node]
             THEN [nodeMap |-> nodeMap,
                   subtreeHeight |-> LeafSubtreeHeight]
             ELSE InitialYChildren(t, t.node[node].children, 1, nodeMap, 0)
    IN [nodeMap |-> MapSet(r.nodeMap, node, [y |-> 0, subtreeHeight |-> r.subtreeHeight]),
        ret |-> r.subtreeHeight]

\* Pass 1.  Returns the node map after the call and the value returned.
calculateInitialY(t, node, nodeMap) ==
    LET r == IF NoChildren(t, node)
             THEN [nodeMap |-> nodeMap,
                   subtreeHeight |-> LeafSubtreeHeight]
             ELSE InitialYChildren(t, t.node[node].children, 1, nodeMap, 0)
    IN [nodeMap |-> MapSet(r.nodeMap, node, [y |-> 0, subtreeHeight |-> r.subtreeHeight]),
        ret |-> r.subtreeHeight]

\* A changed NodeX: columns one box apart, not one separation apart.
NodeXByWidth(level) == level * NODE_WIDTH

\* const x = level * HORIZONTAL_SEPARATION
NodeX(level) == level * HORIZONTAL_SEPARATION

\* A changed LeafY: the bottom of the band, not its centre.
LeafYBottom(yOffset, subtreeHeight) == yOffset * YUnit + subtreeHeight * YUnit

\* y = yOffset + nodeInfo.subtreeHeight / 2, in units of 1 / YUnit
LeafY(yOffset, subtreeHeight) == yOffset * YUnit + (subtreeHeight * YUnit) \div 2

RECURSIVE SeqSum(_, _)
SeqSum(s, i) == IF i > Len(s) THEN 0 ELSE s[i] + SeqSum(s, i + 1)

\* A changed ParentY: the mean of all the children's centres.
ParentYMean(childCenters) == SeqSum(childCenters, 1) \div Len(childCenters)

\* A changed ParentY: the centre of the first child.
ParentYFirst(childCenters) == childCenters[1]

\* y = (childCenters[0] + childCenters[childCenters.length - 1]) / 2
ParentY(childCenters) == (childCenters[1] + childCenters[Len(childCenters)]) \div 2

\* A changed NextChildYOffset: one slot per child, whatever its subtree needs.
NextChildYOffsetOneSlot(childYOffset, childSubtreeHeight) ==
    childYOffset + LeafSubtreeHeight

\* childYOffset += nodeMap.get(child)!.subtreeHeight
NextChildYOffset(childYOffset, childSubtreeHeight) == childYOffset + childSubtreeHeight

RECURSIVE calculateFinalLayout(_, _, _, _, _)
RECURSIVE FinalLayoutChildren(_, _, _, _, _, _, _)

\* A changed forEach: the centre of the first child is computed once more, by
\* a second call, when the loop ends.
FinalLayoutChildrenTwice(t, children, i, level, childYOffset, childCenters, st) ==
    IF i > Len(children)
    THEN LET again == calculateFinalLayout(t, children[1], level + 1,
                          childYOffset - st.nodeMap[children[Len(children)]].subtreeHeight,
                          st)
         IN [st |-> again.st, childCenters |-> childCenters]
    ELSE LET c == calculateFinalLayout(t, children[i], level + 1, childYOffset, st)
         IN FinalLayoutChildren(t, children, i + 1, level,
                NextChildYOffset(childYOffset, c.st.nodeMap[children[i]].subtreeHeight),
                Append(childCenters, c.ret), c.st)

\* The forEach of lines 96-100, from child i on.  st holds `nodes`, `nodeMap`
\* and the log of calls.
FinalLayoutChildren(t, children, i, level, childYOffset, childCenters, st) ==
    IF i > Len(children)
    THEN [st |-> st, childCenters |-> childCenters]
    ELSE LET c == calculateFinalLayout(t, children[i], level + 1, childYOffset, st)
         IN FinalLayoutChildren(t, children, i + 1, level,
                NextChildYOffset(childYOffset, c.st.nodeMap[children[i]].subtreeHeight),
                Append(childCenters, c.ret), c.st)

\* Pass 2.  Returns the state after the call and the value returned (y).
\* st.calls records the arguments of every call, in the order of the calls.
calculateFinalLayout(t, node, level, yOffset, st) ==
    LET nodeInfo == st.nodeMap[node]
        x == NodeX(level)
        entered == [st EXCEPT !.calls =
                       Append(@, [node |-> node, level |-> level, yOffset |-> yOffset])]
        r == IF NoChildren(t, node)
             THEN [st |-> entered,
                   y |-> LeafY(yOffset, nodeInfo.subtreeHeight)]
             ELSE LET f == FinalLayoutChildren(t, t.node[node].children, 1, level,
                                               yOffset, <<>>, entered)
                  IN [st |-> f.st,
                      y |-> ParentY(f.childCenters)]
    IN [st |-> [r.st EXCEPT
                  !.nodes = Append(@, [node |-> node, x |-> x, y |-> r.y, level |-> level]),
                  !.nodeMap = MapSet(@, node, [nodeInfo EXCEPT !.y = r.y])],
        ret |-> r.y]

\* ------------------------------------------------------------------ links
\* nodes.find(n => n.node === childNode): the first match, or NotFound.
NotFound == [notFound |-> TRUE]
Find(nodes, childNode) ==
    LET hits == { i \in 1..Len(nodes) : nodes[i].node = childNode }
    IN IF hits = {} THEN NotFound
       ELSE nodes[CHOOSE i \in hits : \A j \in hits : i <= j]

\* A changed LinkBetween: the link leaves the parent's left edge.
LinkBetweenLeftEdge(source, target) ==
    [source |-> [x |-> source.x, y |-> source.y],
     target |-> [x |-> target.x, y |-> target.y]]

\* The link pushed for a node of the list and the entry found for its child.
LinkBetween(source, target) ==
    [source |-> [x |-> source.x + NODE_WIDTH, y |-> source.y],
     target |-> [x |-> target.x, y |-> target.y]]

RECURSIVE LinksOfChildren(_, _, _, _, _)

\* A changed LinksOfChildren: only the first child of a node is linked.
LinksOfChildrenFirstOnly(nodes, source, children, i, links) ==
    IF i > Len(children) \/ i > 1 THEN links
    ELSE LET target == Find(nodes, children[i])
         IN IF target # NotFound
            THEN Append(links, LinkBetween(source, target))
            ELSE links

\* source.node.children.forEach(...), from child i on.
LinksOfChildren(nodes, source, children, i, links) ==
    IF i > Len(children) THEN links
    ELSE LET target == Find(nodes, children[i])
         IN LinksOfChildren(nodes, source, children, i + 1,
                IF target # NotFound
                THEN Append(links, LinkBetween(source, target))
                ELSE links)

RECURSIVE CreateLinks(_, _, _, _)
\* nodes.forEach(source => ...), from node i on.
CreateLinks(t, nodes, i, links) ==
    IF i > Len(nodes) THEN links
    ELSE CreateLinks(t, nodes, i + 1,
            IF "children" \in DOMAIN t.node[nodes[i].node]
            THEN LinksOfChildren(nodes, nodes[i], t.node[nodes[i].node].children, 1, links)
            ELSE links)

\* Math.max(...nodes.map(n => n.x))
MaxX(nodes) ==
    CHOOSE m \in { nodes[i].x : i \in 1..Len(nodes) } :
        \A i \in 1..Len(nodes) : nodes[i].x <= m

\* A changed CanvasWidth: the width of the last column's boxes is left out.
CanvasWidthNoBox(nodes) == MaxX(nodes) + CANVAS_MARGIN

\* const maxX = Math.max(...) + NODE_WIDTH; const width = maxX + 40
CanvasWidth(nodes) == MaxX(nodes) + NODE_WIDTH + CANVAS_MARGIN

\* const height = totalHeight + 40
CanvasHeight(totalHeight) == totalHeight + CANVAS_MARGIN

\* ------------------------------------------------------------- the effect
\* The frames the engine's call stack holds before it throws a RangeError:
\* more than the deepest tree of the model needs, fewer than a cycle asks for.
StackLimit == MaxNodes + 2

RECURSIVE StackOverflows(_, _, _)
\* The recursion of calculateInitialY (line 76) from `node`, entered at
\* `depth`, outgrows the call stack.
StackOverflows(t, node, depth) ==
    IF depth > StackLimit THEN TRUE
    ELSE IF NoChildren(t, node) THEN FALSE
    ELSE \E i \in 1..Len(t.node[node].children) :
            StackOverflows(t, t.node[node].children[i], depth + 1)

\* The error the effect throws for the input t: reading `node.children` of
\* null or undefined (line 72) is a TypeError, a recursion without end a
\* RangeError.
EffectError(t) ==
    IF t \in MissingRoots THEN "TypeError"
    ELSE IF StackOverflows(t, t.root, 1) THEN "RangeError"
    ELSE "none"

\* A changed EffectLocals: `nodes` and `nodeMap` live outside the effect and
\* keep what the run before has left in them.
EffectLocalsKept ==
    IF pass = NoPass
    THEN [nodes |-> <<>>, nodeMap |-> <<>>]
    ELSE [nodes |-> pass.result.nodes, nodeMap |-> pass.nodeMap]

\* const nodes = []; const nodeMap = new Map(): made anew by every run.
EffectLocals == [nodes |-> <<>>, nodeMap |-> <<>>]

\* The body of the effect, for the tree t: the locals at its end.
LayoutPass(t) ==
    LET p1 == calculateInitialY(t, t.root, EffectLocals.nodeMap)
        totalHeight == p1.ret
        p2 == calculateFinalLayout(t, t.root, 0, 0,
                  [nodes |-> EffectLocals.nodes, nodeMap |-> p1.nodeMap, calls |-> <<>>])
        nodes == p2.st.nodes
        links == CreateLinks(t, nodes, 1, <<>>)
    IN [data |-> t,
        heights |-> p1.nodeMap,
        nodeMap |-> p2.st.nodeMap,
        calls |-> p2.st.calls,
        totalHeight |-> totalHeight,
        result |-> [nodes |-> nodes, links |-> links,
                    width |-> CanvasWidth(nodes),
                    height |-> CanvasHeight(totalHeight)]]

\* ----------------------------------------------------------------- render
\* A changed path: both control points at the height of the source.
getPathFlat(link) ==
    LET source == link.source
        target == link.target
        controlX1 == source.x + (target.x - source.x) \div 2
        controlX2 == source.x + (target.x - source.x) \div 2
    IN [M |-> <<source.x, source.y>>,
        C |-> << <<controlX1, source.y>>, <<controlX2, source.y>>,
                 <<target.x, target.y>> >>]

\* The link's path: `M sx,sy C c1x,c1y c2x,c2y tx,ty`, the numbers in the
\* order of the template string.  (target.x - source.x) * 0.5 is exact: the
\* difference of two x is even.
getPath(link) ==
    LET source == link.source
        target == link.target
        controlX1 == source.x + (target.x - source.x) \div 2
        controlY1 == source.y
        controlX2 == source.x + (target.x - source.x) \div 2
        controlY2 == target.y
    IN [M |-> <<source.x, source.y>>,
        C |-> << <<controlX1, controlY1>>, <<controlX2, controlY2>>,
                 <<target.x, target.y>> >>]

levelColors ==
    << "from-indigo-600 to-purple-600",
       "from-sky-600 to-cyan-600",
       "from-emerald-500 to-lime-500",
       "from-amber-500 to-orange-500" >>

\* The <path> of the link at index i (from 0) of `links`.
PathElement(link, i) == [d |-> getPath(link), animationDelay |-> i * 100]

\* A changed box: its top edge at y, and pushed right by its delay.
NodeElementShifted(n, i) ==
    [x |-> n.x + i,
     y |-> n.y,
     width |-> NODE_WIDTH,
     height |-> NODE_HEIGHT,
     gradient |-> levelColors[(n.level % Len(levelColors)) + 1],
     text |-> n.node,
     animationDelay |-> i * 50]

\* The <foreignObject> of the entry at index i (from 0) of `nodes`.
NodeElement(n, i) ==
    [x |-> n.x,
     y |-> n.y - (NODE_HEIGHT * YUnit) \div 2,
     width |-> NODE_WIDTH,
     height |-> NODE_HEIGHT,
     gradient |-> levelColors[(n.level % Len(levelColors)) + 1],
     text |-> n.node,
     animationDelay |-> i * 50]

\* What the component returns while `layout` is null.
Spinner == [spinner |-> TRUE]

\* What the component returns for the state `layout`.
ViewOf(l) ==
    IF l = NoLayout THEN Spinner
    ELSE [width |-> l.width,
          height |-> l.height,
          paths |-> [i \in 1..Len(l.links) |-> PathElement(l.links[i], i - 1)],
          boxes |-> [i \in 1..Len(l.nodes) |-> NodeElement(l.nodes[i], i - 1)]]

\* setLayout has changed the state and the component has not rendered it yet.
RenderDue == view # ViewOf(layout)

\* ------------------------------------------------- LearningPath: state
\* localStorage.getItem gives null for a key without item.
NoItem == [isNull |-> TRUE]

\* The grades and subjects of the model: the grade and subject the component
\* starts with (line 76) and one more of each.
Grades == {10, 11}
Subjects == {"math", "physics"}
Configs == [grade : Grades, subject : Subjects]

\* What the two selects offer (lines 471-480): either more than one grade or
\* more than one subject.
Offered ==
    { [grades |-> Grades, subjects |-> {"math"}],
      [grades |-> {10}, subjects |-> Subjects] }

\* The value of the <option> of a grade, and parseInt of it (line 152).
OptionValue(g) == IF g = 10 THEN "10" ELSE "11"
parseInt(value) == IF value = "10" THEN 10 ELSE 11

\* getStorageKey (line 69): the template string is one to one in grade and
\* subject, so the pair stands for the key.
getStorageKey(grade, subject) == <<grade, subject>>
StorageKeys == { getStorageKey(c.grade, c.subject) : c \in Configs }

\* useState of lines 76-87, and a storage without items.
LearningPathInitial ==
    /\ config = [grade |-> 10, subject |-> "math"]
    /\ plan = <<>>
    /\ currentLessonIndex = 0
    /\ markdownContent = <<>>
    /\ wordContent = <<>>
    /\ images = {}
    /\ imageLoadingStates = {}
    /\ isReviewSessionActive = FALSE
    /\ isLoading = "false"
    /\ error = "null"
    /\ requests = <<>>
    /\ localStorage = [k \in StorageKeys |-> NoItem]

\* ---------------------------------------------------------- App: state
\* The languages, roles and goals of the model (types.ts: part_003 lines
\* 3-19).
Languages == {"English", "Tiếng Việt"}
UserRoles == {"student", "teacher"}
StudentGoals == {"good_student", "excellent_student"}

\* useState of lines 32-37, an empty storage, the clock at its start.
AppInitial ==
    /\ language = "null"
    /\ userRole = "null"
    /\ studentGoal = "null"
    /\ library = <<>>
    /\ libraryUsage = [used |-> 0, total |-> STORAGE_LIMIT_BYTES]
    /\ libraryStorage = [r \in UserRoles |-> NoItem]
    /\ now = 0
    /\ saveButtonText = "save"
    /\ lastAdd = "none"

\* The app where the other components are on the screen: a student in the
\* main layout, nothing saved.
AppAtRest ==
    /\ language = "English"
    /\ userRole = "student"
    /\ studentGoal = "good_student"
    /\ library = <<>>
    /\ libraryUsage = [used |-> 0, total |-> STORAGE_LIMIT_BYTES]
    /\ libraryStorage = [r \in UserRoles |-> NoItem]
    /\ now = 0
    /\ saveButtonText = "save"
    /\ lastAdd = "none"

\* ---------------------------------------------------------------- actions
\* The component is mounted and has rendered once, `layout` being null.
Init ==
    /\ data \in Inputs
    /\ layout = NoLayout
    /\ effectPending = TRUE
    /\ pass = NoPass
    /\ thrown = "none"
    /\ lastPass = "none"
    /\ view = Spinner
    /\ offered = [grades |-> Grades, subjects |-> Subjects]
    /\ LearningPathInitial
    /\ AppAtRest

\* A changed effect: a missing root is answered with an empty layout.
RunLayoutEffectEmptyOnMissing ==
    /\ effectPending
    /\ thrown = "none"
    /\ IF data \in MissingRoots
       THEN /\ layout' = [nodes |-> <<>>, links |-> <<>>,
                          width |-> CANVAS_MARGIN, height |-> CANVAS_MARGIN]
            /\ UNCHANGED <<pass, lastPass, thrown>>
       ELSE IF EffectError(data) # "none"
       THEN /\ thrown' = EffectError(data)
            /\ UNCHANGED <<layout, pass, lastPass>>
       ELSE /\ pass' = LayoutPass(data)
            /\ layout' = pass'.result
            /\ lastPass' = IF pass = NoPass THEN "first"
                           ELSE IF pass.data = data THEN "same" ELSE "other"
            /\ thrown' = "none"
    /\ effectPending' = FALSE
    /\ UNCHANGED <<data, view, lpVars, appVars>>

\* A changed effect: the missing children fields are written into the tree
\* before it is laid out.
RunLayoutEffectNormalizing ==
    /\ effectPending
    /\ thrown = "none"
    /\ IF EffectError(data) # "none"
       THEN /\ thrown' = EffectError(data)
            /\ UNCHANGED <<layout, pass, lastPass, data>>
       ELSE /\ data' = AllEmpty(data)
            /\ pass' = LayoutPass(data')
            /\ layout' = pass'.result
            /\ lastPass' = IF pass = NoPass THEN "first"
                           ELSE IF pass.data = data THEN "same" ELSE "other"
            /\ thrown' = "none"
    /\ effectPending' = FALSE
    /\ UNCHANGED <<view, lpVars, appVars>>

\* useEffect(() => {...; setLayout({nodes, links, width, height})}, [data])
\* An error thrown in the effect leaves the state as it is and takes the
\* component down.
RunLayoutEffect ==
    /\ effectPending
    /\ thrown = "none"
    /\ IF EffectError(data) # "none"
       THEN /\ thrown' = EffectError(data)
            /\ UNCHANGED <<layout, pass, lastPass>>
       ELSE /\ pass' = LayoutPass(data)
            /\ layout' = pass'.result
            /\ lastPass' = IF pass = NoPass THEN "first"
                           ELSE IF pass.data = data THEN "same" ELSE "other"
            /\ thrown' = "none"
    /\ effectPending' = FALSE
    /\ UNCHANGED <<data, view, lpVars, appVars>>

\* The component renders the state setLayout has set.
Render ==
    /\ thrown = "none"
    /\ RenderDue
    /\ view' = ViewOf(layout)
    /\ UNCHANGED <<data, layout, effectPending, pass, thrown, lastPass, lpVars, appVars>>

\* A changed ChangeData: the effect does not depend on `data`.
ChangeDataNoEffect ==
    /\ thrown = "none"
    /\ ~RenderDue
    /\ \E t \in NewInputs \cup {data} : data' = t
    /\ UNCHANGED <<layout, pass, thrown, lastPass, view, effectPending, lpVars, appVars>>

\* The parent renders the component with another value of `data`: a small
\* tree, a missing root, or a tree like the one before.
ChangeData ==
    /\ thrown = "none"
    /\ ~RenderDue
    /\ \E t \in NewInputs \cup {data} : data' = t
    /\ effectPending' = TRUE
    /\ UNCHANGED <<layout, pass, thrown, lastPass, view, lpVars, appVars>>

Next == RunLayoutEffect \/ Render \/ ChangeData

Spec == Init /\ [][Next]_vars

\* ----------------------------------------------- LearningPath: effects
\* The load effect (lines 97-131) for the selection c: the values it gives
\* to setPlan and setCurrentLessonIndex.  What this component has stored
\* passes the test of line 104; JSON.parse gives back the lessons and the
\* index that JSON.stringify was given.
LoadEffect(storage, c) ==
    LET savedData == storage[getStorageKey(c.grade, c.subject)]
    IN IF savedData # NoItem
       THEN [plan |-> savedData.savedPlan,
             currentLessonIndex |-> savedData.savedIndex]
       ELSE [plan |-> <<>>, currentLessonIndex |-> 0]

\* The save effect without the test of line 136.
SaveEffectAlways(storage, p, i, c) ==
    [storage EXCEPT ![getStorageKey(c.grade, c.subject)] =
        [savedPlan |-> p, savedIndex |-> i]]

\* The save effect (lines 134-148) of a render with plan p, index i and
\* selection c: the storage after it.
SaveEffect(storage, p, i, c) ==
    IF Len(p) > 0
    THEN [storage EXCEPT ![getStorageKey(c.grade, c.subject)] =
              [savedPlan |-> p, savedIndex |-> i]]
    ELSE storage

\* The plan made of the n topics the AI returns for the selection c
\* (line 206).  A topic is known by the grade and subject the prompt named
\* (line 171) and its place in the answer.
PlanFor(c, n) ==
    [i \in 1..n |->
        [topic |-> [grade |-> c.grade, subject |-> c.subject, no |-> i],
         completed |-> FALSE]]

\* The texts on the screen.  What the AI returns for the prompt of
\* generateLesson (lines 325-354, 307) is known as a lesson, whatever its
\* topic, and what it returns for the prompt of generateReviewLesson (lines
\* 374-399, 307) as a review lesson.
LessonText == "lesson"
ReviewText == "review"

\* What line 422 appends to the text on the screen.
Congratulations == "Congratulations!"

\* The calls under way have no order among them: `requests` lists them in
\* the order of this number.
OrderOf(call) ==
    IF call.kind = "plan"
    THEN 2 * call.config.grade + (IF call.config.subject = "math" THEN 0 ELSE 1)
    ELSE IF call.kind = "lesson"
    THEN 100 + (IF call.text = LessonText THEN 0 ELSE 2)
             + (IF call.isReviewSessionActive THEN 1 ELSE 0)
    ELSE 200 + (IF call.text = LessonText THEN 0 ELSE 1)

\* The calls under way after `call` is made.
Awaiting(q, call) ==
    LET before == Cardinality({ i \in 1..Len(q) : OrderOf(q[i]) <= OrderOf(call) })
    IN [i \in 1..(Len(q) + 1) |->
           IF i <= before THEN q[i]
           ELSE IF i = before + 1 THEN call
           ELSE q[i - 1]]

\* The sequence q without its element at position r.
Without(q, r) == [i \in 1..(Len(q) - 1) |-> IF i < r THEN q[i] ELSE q[i + 1]]

\* ----------------------------------------------- LearningPath: actions
\* No mind map is mounted while the learning path is shown.
MindMapUnmounted ==
    /\ data = [isUndefined |-> TRUE]
    /\ layout = NoLayout
    /\ effectPending = FALSE
    /\ pass = NoPass
    /\ thrown = "none"
    /\ lastPass = "none"
    /\ view = Spinner

\* The component is mounted over an empty storage: the load effect finds
\* nothing and sets the plan and the index to what they are.
InitLearningPath ==
    /\ MindMapUnmounted
    /\ offered \in Offered
    /\ LearningPathInitial
    /\ AppAtRest

\* What both branches of the load effect and the handlers clear together
\* (lines 107-110, 163-166, 282-285, 416-419).
ContentCleared ==
    /\ markdownContent' = <<>>
    /\ wordContent' = <<>>
    /\ images' = {}
    /\ imageLoadingStates' = {}

\* handleConfigChange (lines 150-153): one of the two selects gets another
\* value.  The render with the new selection runs the load effect and then
\* the save effect, both with the plan and index of that render; the render
\* with what the load effect has set runs the save effect again.
handleConfigChange ==
    \E name \in {"grade", "subject"} :
      \E value \in (IF name = "grade"
                    THEN { OptionValue(g) : g \in offered.grades }
                    ELSE offered.subjects) :
        LET c == IF name = "grade"
                 THEN [config EXCEPT !.grade = parseInt(value)]
                 ELSE [config EXCEPT !.subject = value]
        IN
        /\ c # config
        /\ LET loaded == LoadEffect(localStorage, c)
               afterFirst == SaveEffect(localStorage, plan, currentLessonIndex, c)
           IN /\ config' = c
              /\ plan' = loaded.plan
              /\ currentLessonIndex' = loaded.currentLessonIndex
              /\ isReviewSessionActive' = FALSE
              /\ ContentCleared
              /\ localStorage' = SaveEffect(afterFirst, loaded.plan,
                                            loaded.currentLessonIndex, c)
        /\ UNCHANGED <<isLoading, error, requests, mmVars, appVars, offered>>

\* generatePlan up to its await (lines 155-186) without the removeItem of
\* line 161.
generatePlanKeepsItem ==
    /\ isLoading # "plan"
    /\ Len(requests) < MaxRequests
    /\ isLoading' = "plan"
    /\ error' = "null"
    /\ isReviewSessionActive' = FALSE
    /\ plan' = <<>>
    /\ ContentCleared
    /\ requests' = Awaiting(requests, [kind |-> "plan", config |-> config])
    /\ UNCHANGED <<config, currentLessonIndex, localStorage, mmVars, appVars, offered>>

\* generatePlan up to its await (lines 155-186).  The button is disabled
\* while isLoading is 'plan' (line 482).  The save effect of the render that
\* follows finds an empty plan.
generatePlan ==
    /\ isLoading # "plan"
    /\ Len(requests) < MaxRequests
    /\ isLoading' = "plan"
    /\ error' = "null"
    /\ isReviewSessionActive' = FALSE
    /\ localStorage' =
          [localStorage EXCEPT ![getStorageKey(config.grade, config.subject)] = NoItem]
    /\ plan' = <<>>
    /\ ContentCleared
    /\ requests' = Awaiting(requests, [kind |-> "plan", config |-> config])
    /\ UNCHANGED <<config, currentLessonIndex, mmVars, appVars, offered>>

\* generatePlan after its await, the AI having returned n topics (lines
\* 204-207, 215), and the save effect of the render that follows.
PlanArrives ==
    \E r \in 1..Len(requests), n \in 1..MaxLessons :
        /\ requests[r].kind = "plan"
        /\ plan' = PlanFor(requests[r].config, n)
        /\ currentLessonIndex' = 0
        /\ isLoading' = "false"
        /\ localStorage' = SaveEffect(localStorage, plan', 0, config)
        /\ requests' = Without(requests, r)
        /\ UNCHANGED <<config, markdownContent, wordContent, images,
                       imageLoadingStates, isReviewSessionActive, error,
                       mmVars, appVars, offered>>

\* generatePlan after its await, the call having failed or returned no topic
\* (lines 208-216).
PlanFails ==
    \E r \in 1..Len(requests) :
        /\ requests[r].kind = "plan"
        /\ error' = "Sorry, an error occurred while generating the learning plan."
        /\ isLoading' = "false"
        /\ requests' = Without(requests, r)
        /\ UNCHANGED <<config, plan, currentLessonIndex, markdownContent,
                       wordContent, images, imageLoadingStates,
                       isReviewSessionActive, localStorage, mmVars, appVars,
                       offered>>

\* baseGenerationLogic up to its await (lines 279-305), called by a handler
\* of a render whose isReviewSessionActive is `closure` and which sets the
\* state to `active`; `text` is what the prompt asks for.
baseGenerationLogic(text, closure, active) ==
    /\ Len(requests) < MaxRequests
    /\ isLoading' = "lesson"
    /\ error' = "null"
    /\ isReviewSessionActive' = active
    /\ ContentCleared
    /\ requests' = Awaiting(requests, [kind |-> "lesson", text |-> text,
                                     isReviewSessionActive |-> closure])
    /\ UNCHANGED <<config, plan, currentLessonIndex, localStorage, mmVars,
                   appVars, offered>>

\* handleLessonClick on the current lesson (lines 402-407) and generateLesson
\* (lines 325-354).  The buttons of later lessons are disabled (line 504),
\* those of earlier lessons do nothing.
handleLessonClick ==
    /\ currentLessonIndex < Len(plan)
    /\ baseGenerationLogic(LessonText, isReviewSessionActive, FALSE)

\* generateReviewLesson (lines 356-400).  Its three buttons are there for a
\* plan of mathematics and are disabled while isLoading is 'lesson' (lines
\* 485-492); the review type changes the prompt only.
generateReviewLesson ==
    /\ Len(plan) > 0
    /\ config.subject = "math"
    /\ isLoading # "lesson"
    /\ baseGenerationLogic(ReviewText, isReviewSessionActive, TRUE)

\* The image tag of a text that has one (line 221).
ImageTag == "[IMAGE: x]"

\* generateImagesForLesson up to its first await (lines 219-248) where
\* baseGenerationLogic calls it, after the request at position r has
\* returned `text`: the requests and the loading states after it.  A text
\* has the image tag or none; the request keeps what kind of text the
\* image is made for.
generateImagesForLesson(r, text, hasTag) ==
    IF hasTag
    THEN /\ imageLoadingStates' = {[tag |-> ImageTag, state |-> "loading"]}
         /\ requests' = Awaiting(Without(requests, r),
                               [kind |-> "image", tag |-> ImageTag,
                                text |-> text])
    ELSE /\ imageLoadingStates' = imageLoadingStates
         /\ requests' = Without(requests, r)

\* baseGenerationLogic after its await, the AI having returned the text
\* (lines 306-314, 319); line 312 reads the isReviewSessionActive of the
\* render whose handler made the call.
LessonArrives ==
    \E r \in 1..Len(requests), hasTag \in BOOLEAN :
        /\ requests[r].kind = "lesson"
        /\ markdownContent' = <<requests[r].text>>
        /\ wordContent' = <<requests[r].text>>
        /\ isLoading' = "false"
        /\ IF ~requests[r].isReviewSessionActive
           THEN generateImagesForLesson(r, requests[r].text, hasTag)
           ELSE /\ imageLoadingStates' = imageLoadingStates
                /\ requests' = Without(requests, r)
        /\ UNCHANGED <<config, plan, currentLessonIndex, images,
                       isReviewSessionActive, error, localStorage, mmVars,
                       appVars, offered>>

\* baseGenerationLogic after its await, the call having failed (lines
\* 315-320).
LessonFails ==
    \E r \in 1..Len(requests) :
        /\ requests[r].kind = "lesson"
        /\ error' = "Sorry, an error occurred while generating the lesson content."
        /\ isLoading' = "false"
        /\ requests' = Without(requests, r)
        /\ UNCHANGED <<config, plan, currentLessonIndex, markdownContent,
                       wordContent, images, imageLoadingStates,
                       isReviewSessionActive, localStorage, mmVars, appVars,
                       offered>>

\* The loading states without the one of `tag` (lines 264-268).
WithoutTag(states, tag) == { s \in states : s.tag # tag }

\* generateImagesForLesson after its await, the image being there (lines
\* 250-268).
ImageArrives ==
    \E r \in 1..Len(requests) :
        /\ requests[r].kind = "image"
        /\ images' = images \cup {requests[r].tag}
        /\ imageLoadingStates' = WithoutTag(imageLoadingStates, requests[r].tag)
        /\ requests' = Without(requests, r)
        /\ UNCHANGED <<config, plan, currentLessonIndex, markdownContent,
                       wordContent, isLoading, isReviewSessionActive, error,
                       localStorage, mmVars, appVars, offered>>

\* generateImagesForLesson after its await, the call having failed or
\* returned no image (lines 269-275).
ImageFails ==
    \E r \in 1..Len(requests) :
        /\ requests[r].kind = "image"
        /\ imageLoadingStates' =
              WithoutTag(imageLoadingStates, requests[r].tag)
                  \cup {[tag |-> requests[r].tag, state |-> "error"]}
        /\ requests' = Without(requests, r)
        /\ UNCHANGED <<config, plan, currentLessonIndex, markdownContent,
                       wordContent, images, isLoading, isReviewSessionActive,
                       error, localStorage, mmVars, appVars, offered>>

\* The mark-complete button is on the screen (lines 544-546).
MarkCompleteOffered ==
    /\ markdownContent # <<>>
    /\ isLoading = "false"
    /\ ~isReviewSessionActive
    /\ currentLessonIndex < Len(plan)
    /\ ~plan[currentLessonIndex + 1].completed

\* Line 414 without its test: the index moves on after the last lesson too.
IsNotLastAlways(i, p) == TRUE

\* The test of line 414.
IsNotLast(i, p) == i < Len(p) - 1

\* handleMarkComplete (lines 409-424) and the save effect of the render that
\* follows.
handleMarkComplete ==
    /\ MarkCompleteOffered
    /\ plan' = [plan EXCEPT ![currentLessonIndex + 1].completed = TRUE]
    /\ IF IsNotLast(currentLessonIndex, plan)
       THEN /\ currentLessonIndex' = currentLessonIndex + 1
            /\ ContentCleared
       ELSE /\ currentLessonIndex' = currentLessonIndex
            /\ markdownContent' = Append(markdownContent, Congratulations)
            /\ UNCHANGED <<wordContent, images, imageLoadingStates>>
    /\ localStorage' = SaveEffect(localStorage, plan', currentLessonIndex', config)
    /\ UNCHANGED <<config, isLoading, isReviewSessionActive, error, requests,
                   mmVars, appVars, offered>>

\* The user leaves the learning path and comes back (part_002 line 31): a
\* new component with the state of lines 76-87, whose load and save effects
\* run as on every mount.  What the calls under way return goes to the
\* component that is gone.
Remount ==
    LET c == [grade |-> 10, subject |-> "math"]
        loaded == LoadEffect(localStorage, c)
    IN /\ config' = c
       /\ plan' = loaded.plan
       /\ currentLessonIndex' = loaded.currentLessonIndex
       /\ isReviewSessionActive' = FALSE
       /\ ContentCleared
       /\ isLoading' = "false"
       /\ error' = "null"
       /\ requests' = <<>>
       /\ localStorage' = SaveEffect(SaveEffect(localStorage, <<>>, 0, c),
                                     loaded.plan, loaded.currentLessonIndex, c)
       /\ UNCHANGED <<mmVars, appVars, offered>>

NextLearningPath ==
    \/ handleConfigChange
    \/ generatePlan
    \/ PlanArrives
    \/ PlanFails
    \/ handleLessonClick
    \/ generateReviewLesson
    \/ LessonArrives
    \/ LessonFails
    \/ ImageArrives
    \/ ImageFails
    \/ handleMarkComplete
    \/ Remount

SpecLearningPath == InitLearningPath /\ [][NextLearningPath]_vars

\* The learning path of a user who asks for no specialised review lesson.
NextRegularLessons ==
    \/ handleConfigChange
    \/ generatePlan
    \/ PlanArrives
    \/ PlanFails
    \/ handleLessonClick
    \/ LessonArrives
    \/ LessonFails
    \/ ImageArrives
    \/ ImageFails
    \/ handleMarkComplete
    \/ Remount

SpecRegularLessons == InitLearningPath /\ [][NextRegularLessons]_vars

\* ------------------------------------------------------------------- App
\* getLibraryStorageKey (lines 45-48): the template string is one to one in
\* the role, so the role stands for the key.
getLibraryStorageKey == IF userRole = "null" THEN "null" ELSE userRole

\* What is saved: a text of one character, of one byte or of three.
Contents == {"a", "ệ"}

\* new TextEncoder().encode(text).length
Utf8Length(text) == IF text = "a" THEN 1 ELSE 3

RECURSIVE ItemsBytes(_, _)
\* The bytes of the items of lib from position i on, each written as an
\* object with its fields around the content.
ItemsBytes(lib, i) ==
    IF i > Len(lib) THEN 0
    ELSE 2 + Utf8Length(lib[i].content) + ItemsBytes(lib, i + 1)

\* JSON.stringify(lib): the string is held as the value JSON.parse gives
\* for it and the length of its UTF-8 encoding: the brackets, the items
\* and the commas between them.
stringify(lib) ==
    [parsed |-> lib,
     bytes |-> 2 + ItemsBytes(lib, 1) + (IF Len(lib) > 1 THEN Len(lib) - 1 ELSE 0)]

\* A changed size test: nothing is too large.
TooLargeNever(newSize) == FALSE

\* `newSize > STORAGE_LIMIT_BYTES` (line 106).
TooLarge(newSize) == newSize > STORAGE_LIMIT_BYTES

\* The state a call of addToLibrary or removeFromLibrary leaves.
LibraryState(lib, usage, storage, outcome) ==
    [library |-> lib, libraryUsage |-> usage, libraryStorage |-> storage,
     outcome |-> outcome]

\* `${Date.now()}` (line 98).
NewId == ToString(now)

\* addToLibrary (lines 92-114).
addToLibrary(itemData) ==
    LET key == getLibraryStorageKey
        newItem == [name |-> itemData.name, type |-> itemData.type,
                    content |-> itemData.content,
                    id |-> NewId, timestamp |-> now]
        updatedLibrary == <<newItem>> \o library
        newLibraryString == stringify(updatedLibrary)
        newSize == newLibraryString.bytes
    IN IF key = "null"
       THEN LibraryState(library, libraryUsage, libraryStorage, "no role")
       ELSE IF TooLarge(newSize)
       THEN LibraryState(library, libraryUsage, libraryStorage, "rejected")
       ELSE LibraryState(updatedLibrary,
                         [used |-> newSize, total |-> STORAGE_LIMIT_BYTES],
                         [libraryStorage EXCEPT ![key] = newLibraryString],
                         "stored")

\* library.filter(item => item.id !== id)
FilterOut(lib, id) ==
    LET keep == { i \in 1..Len(lib) : lib[i].id # id }
    IN [j \in 1..Cardinality(keep) |->
           lib[CHOOSE i \in keep : Cardinality({ h \in keep : h < i }) = j - 1]]

\* removeFromLibrary (lines 116-127).
removeFromLibrary(id) ==
    LET key == getLibraryStorageKey
        updatedLibrary == FilterOut(library, id)
        newLibraryString == stringify(updatedLibrary)
        newSize == newLibraryString.bytes
    IN IF key = "null"
       THEN LibraryState(library, libraryUsage, libraryStorage, "no role")
       ELSE LibraryState(updatedLibrary,
                         [used |-> newSize, total |-> STORAGE_LIMIT_BYTES],
                         [libraryStorage EXCEPT ![key] = newLibraryString],
                         "removed")

\* What App returns (lines 130-147).
Screen ==
    IF language = "null" THEN "SplashScreen"
    ELSE IF userRole = "null" THEN "RoleSelectionScreen"
    ELSE IF userRole = "student" /\ studentGoal = "null" THEN "GoalSelectionScreen"
    ELSE "MainLayout"

\* No mind map and no learning path is part of this specification.
OthersAtRest ==
    /\ MindMapUnmounted
    /\ offered = [grades |-> Grades, subjects |-> Subjects]
    /\ LearningPathInitial

InitApp ==
    /\ OthersAtRest
    /\ AppInitial

\* handleLanguageSelect (lines 74-76), called by the splash screen.
handleLanguageSelect ==
    /\ Screen = "SplashScreen"
    /\ \E selectedLanguage \in Languages : language' = selectedLanguage
    /\ UNCHANGED <<userRole, studentGoal, library, libraryUsage, libraryStorage,
                   now, saveButtonText, lastAdd, mmVars, lpVars>>

\* A changed handleRoleSelect: the load effect does not run.
handleRoleSelectNoLoad ==
    /\ Screen = "RoleSelectionScreen"
    /\ \E selectedRole \in UserRoles : userRole' = selectedRole
    /\ UNCHANGED <<language, studentGoal, library, libraryUsage, libraryStorage,
                   now, saveButtonText, lastAdd, mmVars, lpVars>>

\* handleRoleSelect (lines 78-80), called by the role selection screen, and
\* the load effect of the render that follows (lines 51-71).
handleRoleSelect ==
    /\ Screen = "RoleSelectionScreen"
    /\ \E selectedRole \in UserRoles :
          /\ userRole' = selectedRole
          /\ LET savedData == libraryStorage[selectedRole]
             IN IF savedData # NoItem
                THEN /\ library' = savedData.parsed
                     /\ libraryUsage' = [used |-> savedData.bytes,
                                         total |-> STORAGE_LIMIT_BYTES]
                ELSE /\ library' = <<>>
                     /\ libraryUsage' = [used |-> 0, total |-> STORAGE_LIMIT_BYTES]
    /\ UNCHANGED <<language, studentGoal, libraryStorage, now, saveButtonText,
                   lastAdd, mmVars, lpVars>>

\* handleGoalSelect (lines 82-84), called by the goal selection screen.
handleGoalSelect ==
    /\ Screen = "GoalSelectionScreen"
    /\ \E selectedGoal \in StudentGoals : studentGoal' = selectedGoal
    /\ UNCHANGED <<language, userRole, library, libraryUsage, libraryStorage,
                   now, saveButtonText, lastAdd, mmVars, lpVars>>

\* A changed handleGoHome: the goal is kept.
handleGoHomeKeepsGoal ==
    /\ Screen = "MainLayout"
    /\ language' = "null"
    /\ userRole' = "null"
    /\ saveButtonText' = "save"
    /\ UNCHANGED <<studentGoal, library, libraryUsage, libraryStorage, now, lastAdd,
                   mmVars, lpVars>>

\* handleGoHome (lines 86-90), called by the main layout (part_002 line 67).
\* The load effect finds no key and returns; the components of the main
\* layout are gone.
handleGoHome ==
    /\ Screen = "MainLayout"
    /\ language' = "null"
    /\ userRole' = "null"
    /\ studentGoal' = "null"
    /\ saveButtonText' = "save"
    /\ UNCHANGED <<library, libraryUsage, libraryStorage, now, lastAdd,
                   mmVars, lpVars>>

\* What Summarizer.handleSave (Summarizer.tsx lines 88-99) and
\* ExamGenerator.handleSave (part_002 lines 577-592) give to addToLibrary.
ItemDataOf(component, content) ==
    LET type == IF component = "Summarizer" THEN "summary"
                ELSE IF userRole = "student" THEN "review_exercises"
                ELSE "exam"
    IN [name |-> type, type |-> type, content |-> content]

\* What is saved here: a summary of one byte or an exam of three.
SaveInputs ==
    { [component |-> "Summarizer", content |-> "a"],
      [component |-> "ExamGenerator", content |-> "ệ"] }

\* handleSave of Summarizer or ExamGenerator: addToLibrary, then the label
\* of the button is set to t('saved').
handleSave ==
    /\ Screen = "MainLayout"
    /\ \E input \in SaveInputs :
          LET after == addToLibrary(ItemDataOf(input.component, input.content))
          IN /\ library' = after.library
             /\ libraryUsage' = after.libraryUsage
             /\ libraryStorage' = after.libraryStorage
             /\ lastAdd' = after.outcome
    /\ saveButtonText' = "saved"
    /\ UNCHANGED <<language, userRole, studentGoal, now, mmVars, lpVars>>

\* resetSaveButton, called by the timeout of handleSave two seconds later.
resetSaveButton ==
    /\ saveButtonText = "saved"
    /\ saveButtonText' = "save"
    /\ UNCHANGED <<language, userRole, studentGoal, library, libraryUsage,
                   libraryStorage, now, lastAdd, mmVars, lpVars>>

\* Library.handleDelete (Library.tsx lines 45-50) for an item of the list.
handleDelete ==
    /\ Screen = "MainLayout"
    /\ \E i \in 1..Len(library) :
          LET after == removeFromLibrary(library[i].id)
          IN /\ library' = after.library
             /\ libraryUsage' = after.libraryUsage
             /\ libraryStorage' = after.libraryStorage
    /\ UNCHANGED <<language, userRole, studentGoal, now, saveButtonText, lastAdd,
                   mmVars, lpVars>>

\* A millisecond passes.
Tick ==
    /\ now < MaxNow
    /\ now' = now + 1
    /\ UNCHANGED <<language, userRole, studentGoal, library, libraryUsage,
                   libraryStorage, saveButtonText, lastAdd, mmVars, lpVars>>

NextApp ==
    \/ handleLanguageSelect
    \/ handleRoleSelect
    \/ handleGoalSelect
    \/ handleGoHome
    \/ handleSave
    \/ resetSaveButton
    \/ handleDelete
    \/ Tick

SpecApp == InitApp /\ [][NextApp]_vars



\* ================================================================ claims
\* What the claims speak of, read off the tree itself.

\* The children of a node, none when the field is absent.
Kids(t, k) == IF "children" \in DOMAIN t.node[k] THEN t.node[k].children ELSE <<>>

RECURSIVE SumOver(_, _, _)
\* The sum of f[s[i]] over the positions of the sequence s, from position i on.
SumOver(f, s, i) == IF i > Len(s) THEN 0 ELSE f[s[i]] + SumOver(f, s, i + 1)

RECURSIVE CountNodes(_, _)
CountNodes(t, k) ==
    1 + SumOver([c \in DOMAIN t.node |-> CountNodes(t, c)], Kids(t, k), 1)

RECURSIVE CountLeaves(_, _)
CountLeaves(t, k) ==
    IF Len(Kids(t, k)) = 0 THEN 1
    ELSE SumOver([c \in DOMAIN t.node |-> CountLeaves(t, c)], Kids(t, k), 1)

RECURSIVE PreOrder(_, _)
RECURSIVE PreOrderOfAll(_, _, _)
PreOrderOfAll(t, s, i) ==
    IF i > Len(s) THEN <<>> ELSE PreOrder(t, s[i]) \o PreOrderOfAll(t, s, i + 1)
\* The node, then the subtree of each child in the declared order.
PreOrder(t, k) == <<k>> \o PreOrderOfAll(t, Kids(t, k), 1)

RECURSIVE PostOrder(_, _)
RECURSIVE PostOrderOfAll(_, _, _)
PostOrderOfAll(t, s, i) ==
    IF i > Len(s) THEN <<>> ELSE PostOrder(t, s[i]) \o PostOrderOfAll(t, s, i + 1)
\* The subtree of each child in the declared order, then the node.
PostOrder(t, k) == PostOrderOfAll(t, Kids(t, k), 1) \o <<k>>

\* The parent of a node other than the root.
ParentOf(t, c) ==
    CHOOSE k \in DOMAIN t.node : \E i \in 1..Len(Kids(t, k)) : Kids(t, k)[i] = c

RECURSIVE DepthsFrom(_, _, _)
RECURSIVE DepthsOfAll(_, _, _, _)
DepthsOfAll(t, s, i, d) ==
    IF i > Len(s) THEN <<>> ELSE DepthsFrom(t, s[i], d) @@ DepthsOfAll(t, s, i + 1, d)
\* The depth of every node of the subtree of k, k being at depth d.
DepthsFrom(t, k, d) == (k :> d) @@ DepthsOfAll(t, Kids(t, k), 1, d + 1)
\* The depth of every node of the tree, the root at depth 0.
Depths(t) == DepthsFrom(t, t.root, 0)

\* The parent-child pairs of the tree.
Pairs(t) ==
    UNION { { <<k, Kids(t, k)[i]>> : i \in 1..Len(Kids(t, k)) } : k \in DOMAIN t.node }

\* The effect has run: `layout` is the result of the pass over pass.data.
Laid == pass # NoPass /\ layout = pass.result

\* The positions of the node list that hold the node k.
PositionsOf(k) == { i \in 1..Len(layout.nodes) : layout.nodes[i].node = k }
\* Every node of the laid-out tree is in the node list exactly once.
EachNodeOnce == \A k \in DOMAIN pass.data.node : Cardinality(PositionsOf(k)) = 1
\* The entry of the node list for the node k.
EntryOf(k) == layout.nodes[CHOOSE i \in PositionsOf(k) : TRUE]

\* The link the claims expect for a parent and a child.
ExpectedLink(p, c) ==
    [source |-> [x |-> EntryOf(p).x + NODE_WIDTH, y |-> EntryOf(p).y],
     target |-> [x |-> EntryOf(c).x, y |-> EntryOf(c).y]]

\* C1: every node of the tree is in the node list exactly once and every
\* parent-child pair has exactly one link, so the list has countNodes(T)
\* entries and there are countNodes(T) - 1 links.
C1_Coverage ==
    pass # NoPass =>
        /\ layout = pass.result
        /\ EachNodeOnce
        /\ Len(layout.nodes) = CountNodes(pass.data, pass.data.root)
        /\ Len(layout.links) = CountNodes(pass.data, pass.data.root) - 1
        /\ \A pc \in Pairs(pass.data) :
              Cardinality({ i \in 1..Len(layout.links) :
                              layout.links[i] = ExpectedLink(pc[1], pc[2]) }) = 1

\* C1 witness: a tree of the largest size, with inner nodes below the root,
\* has been laid out.
C1_Witness ==
    /\ Laid
    /\ Len(layout.nodes) = MaxNodes
    /\ \E pc \in Pairs(pass.data) : pc[1] # pass.data.root

\* The node identities of the node list, in the order of the list.
NodeOrder == [i \in 1..Len(layout.nodes) |-> layout.nodes[i].node]

\* C2: the node list is ordered as a pre-order traversal of the tree: the
\* root first, then each child's whole subtree in the declared order.
C2_PreOrder ==
    pass # NoPass => NodeOrder = PreOrder(pass.data, pass.data.root)

\* What the code does: a node is pushed after its children's subtrees.
C2_PostOrder ==
    pass # NoPass => NodeOrder = PostOrder(pass.data, pass.data.root)

\* The tree root -> [child1, child2 -> [g1, g2, g3]], child1 and the
\* grandchildren without children.
UnbalancedExample(t) ==
    /\ DOMAIN t.node = 1..6
    /\ Kids(t, 1) = <<2, 3>>
    /\ Kids(t, 3) = <<4, 5, 6>>

\* The leaves of a tree.
LeavesOf(t) == { k \in DOMAIN t.node : Len(Kids(t, k)) = 0 }

\* C3: the y of a node with children is the midpoint of the y of its first
\* and of its last child, whatever lies between them; in the tree
\* root -> [child1, child2 -> three leaves] that makes root.y the midpoint of
\* child1.y and child2.y, which is not the mean of the leaves' y.
C3_ParentCentering ==
    pass # NoPass =>
        /\ EachNodeOnce
        /\ \A k \in DOMAIN pass.data.node :
              LET kids == Kids(pass.data, k) IN
              Len(kids) >= 1 =>
                  2 * EntryOf(k).y = EntryOf(kids[1]).y + EntryOf(kids[Len(kids)]).y
        /\ UnbalancedExample(pass.data) =>
              /\ 2 * EntryOf(3).y = EntryOf(4).y + EntryOf(6).y
              /\ 2 * EntryOf(1).y = EntryOf(2).y + EntryOf(3).y
              /\ 4 * EntryOf(1).y #
                     EntryOf(2).y + EntryOf(4).y + EntryOf(5).y + EntryOf(6).y

\* C3 witness: the unbalanced example has been laid out.
C3_Witness ==
    /\ Laid
    /\ UnbalancedExample(pass.data)
    /\ EntryOf(1).y = 150 * YUnit
    /\ EntryOf(3).y = 250 * YUnit

\* The positions of the call log that hold a call for the node k.
CallsOf(k) == { i \in 1..Len(pass.calls) : pass.calls[i].node = k }
\* Pass 2 is called once for every node of the tree.
EachNodeCalledOnce == \A k \in DOMAIN pass.data.node : Cardinality(CallsOf(k)) = 1
\* The yOffset pass 2 was called with for the node k.
YOffsetOf(k) == pass.calls[CHOOSE i \in CallsOf(k) : TRUE].yOffset
\* The subtreeHeight pass 1 has stored for the node k.
HeightOf(k) == pass.heights[k].subtreeHeight

\* C4: the children of a node get the bands [yOffset, yOffset + subtreeHeight)
\* stacked in the declared order from the parent's own yOffset on, each
\* starting where the one before ends; no two siblings' bands intersect.
C4_SiblingBands ==
    pass # NoPass =>
        /\ EachNodeCalledOnce
        /\ DOMAIN pass.heights = DOMAIN pass.data.node
        /\ YOffsetOf(pass.data.root) = 0
        /\ \A k \in DOMAIN pass.data.node :
              LET kids == Kids(pass.data, k) IN
              /\ Len(kids) >= 1 => YOffsetOf(kids[1]) = YOffsetOf(k)
              /\ \A i \in 1..(Len(kids) - 1) :
                    YOffsetOf(kids[i + 1]) = YOffsetOf(kids[i]) + HeightOf(kids[i])
              /\ \A i, j \in 1..Len(kids) :
                    i # j =>
                        \/ YOffsetOf(kids[i]) + HeightOf(kids[i]) <= YOffsetOf(kids[j])
                        \/ YOffsetOf(kids[j]) + HeightOf(kids[j]) <= YOffsetOf(kids[i])

\* C4 witness: a node below the root with a younger sibling has children of
\* its own, so its band is more than one slot high.
C4_Witness ==
    /\ Laid
    /\ \E k \in DOMAIN pass.data.node :
          LET kids == Kids(pass.data, k) IN
          /\ Len(kids) >= 3
          /\ HeightOf(kids[2]) > NODE_HEIGHT + VERTICAL_SEPARATION
          /\ YOffsetOf(kids[3]) > YOffsetOf(kids[2]) + NODE_HEIGHT + VERTICAL_SEPARATION

\* C5: every node of the list has x = level * HORIZONTAL_SEPARATION, its
\* level being its depth in the tree (the root at 0); two nodes of the same
\* depth have the same x.
C5_Columns ==
    pass # NoPass =>
        LET depth == Depths(pass.data) IN
        /\ EachNodeOnce
        /\ DOMAIN depth = DOMAIN pass.data.node
        /\ \A k \in DOMAIN pass.data.node :
              /\ EntryOf(k).level = depth[k]
              /\ EntryOf(k).x = depth[k] * HORIZONTAL_SEPARATION
              /\ EntryOf(k).x = depth[k] * 220
        /\ \A k1, k2 \in DOMAIN pass.data.node :
              depth[k1] = depth[k2] => EntryOf(k1).x = EntryOf(k2).x

\* C5 witness: two nodes of depth 2 with different parents.
C5_Witness ==
    /\ Laid
    /\ \E k1, k2 \in DOMAIN pass.data.node :
          /\ k1 # k2
          /\ Depths(pass.data)[k1] = 2
          /\ Depths(pass.data)[k2] = 2
          /\ ParentOf(pass.data, k1) # ParentOf(pass.data, k2)
          /\ EntryOf(k1).x = 2 * HORIZONTAL_SEPARATION

\* C6: pass 1 stores NODE_HEIGHT + VERTICAL_SEPARATION for a node without
\* children and the sum of the children's heights for a node with children,
\* nothing added for the node itself: 100 times the leaves of its subtree.
C6_SubtreeHeight ==
    pass # NoPass =>
        /\ DOMAIN pass.heights = DOMAIN pass.data.node
        /\ pass.totalHeight = HeightOf(pass.data.root)
        /\ \A k \in DOMAIN pass.data.node :
              /\ HeightOf(k) =
                    IF Len(Kids(pass.data, k)) = 0
                    THEN NODE_HEIGHT + VERTICAL_SEPARATION
                    ELSE SumOver([c \in DOMAIN pass.data.node |-> HeightOf(c)],
                                 Kids(pass.data, k), 1)
              /\ HeightOf(k) = 100 * CountLeaves(pass.data, k)
              /\ pass.nodeMap[k].subtreeHeight = HeightOf(k)

\* C6 witness: a node with children, one of them with children of its own,
\* whose height is that of three leaves or more.
C6_Witness ==
    /\ Laid
    /\ \E k \in DOMAIN pass.data.node :
          /\ HeightOf(k) >= 300
          /\ \E i \in 1..Len(Kids(pass.data, k)) :
                Len(Kids(pass.data, Kids(pass.data, k)[i])) >= 2

\* C7: a node without children is at y = yOffset + subtreeHeight / 2; the
\* tree of a root alone gives one node at x = 0, y = 50, level 0, and no link.
C7_LeafCentre ==
    pass # NoPass =>
        /\ EachNodeOnce
        /\ EachNodeCalledOnce
        /\ \A k \in LeavesOf(pass.data) :
              2 * EntryOf(k).y = 2 * YOffsetOf(k) * YUnit + HeightOf(k) * YUnit
        /\ DOMAIN pass.data.node = {1} =>
              /\ layout.nodes =
                    << [node |-> 1, x |-> 0, level |-> 0,
                        y |-> ((NODE_HEIGHT + VERTICAL_SEPARATION) \div 2) * YUnit] >>
              /\ layout.nodes[1].y = 50 * YUnit
              /\ layout.links = <<>>

\* C7 witness: the tree of a root alone has been laid out.
C7_Witness ==
    /\ Laid
    /\ DOMAIN pass.data.node = {1}
    /\ Len(layout.nodes) = 1

\* The root has children and none of them has children.
Fan(t) ==
    /\ Len(Kids(t, t.root)) >= 1
    /\ \A i \in 1..Len(Kids(t, t.root)) : Len(Kids(t, Kids(t, t.root)[i])) = 0

\* C8: when all the children of the root are leaves, every child has
\* x = HORIZONTAL_SEPARATION, each child's y is 100 more than the y of the
\* child before it, there is one link from the root to each child, and the
\* root's y is the midpoint of the first and the last child's y.
C8_FanOut ==
    (pass # NoPass /\ Fan(pass.data)) =>
        LET kids == Kids(pass.data, pass.data.root) IN
        /\ EachNodeOnce
        /\ \A i \in 1..Len(kids) : EntryOf(kids[i]).x = HORIZONTAL_SEPARATION
        /\ \A i \in 1..(Len(kids) - 1) :
              EntryOf(kids[i + 1]).y - EntryOf(kids[i]).y =
                  (NODE_HEIGHT + VERTICAL_SEPARATION) * YUnit
        /\ Len(layout.links) = Len(kids)
        /\ \A i \in 1..Len(kids) :
              layout.links[i] = ExpectedLink(pass.data.root, kids[i])
        /\ 2 * EntryOf(pass.data.root).y =
              EntryOf(kids[1]).y + EntryOf(kids[Len(kids)]).y

\* C8 witness: a root with three children without children has been laid out.
C8_Witness ==
    /\ Laid
    /\ Fan(pass.data)
    /\ Len(Kids(pass.data, pass.data.root)) = 3
    /\ Len(layout.links) = 3

RECURSIVE PairsInListOrder(_)
\* The parent-child pairs in the order the links are pushed: the parents in
\* the order of the node list from position i on, the children of each in the
\* declared order.
PairsInListOrder(i) ==
    IF i > Len(layout.nodes) THEN <<>>
    ELSE LET k == layout.nodes[i].node
             kids == Kids(pass.data, k)
         IN [j \in 1..Len(kids) |-> <<k, kids[j]>>] \o PairsInListOrder(i + 1)

\* C9: the link pushed for a parent P and its child C runs from
\* (P.x + NODE_WIDTH, P.y) to (C.x, C.y), the coordinates being those of the
\* two nodes' entries in the node list.
C9_LinkEndpoints ==
    pass # NoPass =>
        LET pairs == PairsInListOrder(1)
            depth == Depths(pass.data)
        IN
        /\ EachNodeOnce
        /\ Len(layout.links) = Len(pairs)
        /\ \A i \in 1..Len(layout.links) :
              /\ layout.links[i] = ExpectedLink(pairs[i][1], pairs[i][2])
              /\ layout.links[i].source.x =
                    depth[pairs[i][1]] * HORIZONTAL_SEPARATION + NODE_WIDTH
              /\ layout.links[i].target.x = depth[pairs[i][2]] * HORIZONTAL_SEPARATION

\* C9 witness: a link whose two ends differ in y, from a parent below the root.
C9_Witness ==
    /\ Laid
    /\ \E i \in 1..Len(layout.links) :
          /\ layout.links[i].source.x = HORIZONTAL_SEPARATION + NODE_WIDTH
          /\ layout.links[i].source.y # layout.links[i].target.y

\* C10: width = max over the nodes of x, + NODE_WIDTH + 40, and
\* height = subtreeHeight(root) + 40; 40 is twice the inset of 20 by which
\* the drawing is translated.
C10_CanvasSize ==
    pass # NoPass =>
        /\ Len(layout.nodes) >= 1
        /\ \E i \in 1..Len(layout.nodes) :
              layout.width = layout.nodes[i].x + NODE_WIDTH + 40
        /\ \A i \in 1..Len(layout.nodes) :
              layout.width >= layout.nodes[i].x + NODE_WIDTH + 40
        /\ DOMAIN pass.heights = DOMAIN pass.data.node
        /\ layout.height = HeightOf(pass.data.root) + 40
        /\ CANVAS_MARGIN = 40
        /\ CANVAS_MARGIN = 2 * CANVAS_INSET

\* C10 witness: a tree three levels deep whose deepest node is not the last
\* of the node list.
C10_Witness ==
    /\ Laid
    /\ layout.width = 2 * HORIZONTAL_SEPARATION + NODE_WIDTH + 40
    /\ layout.height = 340

C12_AbsentLikeEmpty ==
    pass # NoPass =>
        LET e == LayoutPass(AllEmpty(pass.data)) IN
        /\ e.result = layout
        /\ e.heights = pass.heights
        /\ e.calls = pass.calls
        /\ EachNodeOnce
        /\ \A k \in LeavesOf(pass.data) :
              /\ HeightOf(k) = 100
              /\ \A i \in 1..Len(layout.links) :
                    layout.links[i].source #
                        [x |-> EntryOf(k).x + NODE_WIDTH, y |-> EntryOf(k).y]

\* C12 witness: a laid-out tree with a leaf of either kind.
C12_Witness ==
    /\ Laid
    /\ \E k1, k2 \in LeavesOf(pass.data) :
          /\ "children" \notin DOMAIN pass.data.node[k1]
          /\ "children" \in DOMAIN pass.data.node[k2]
    /\ Len(layout.links) >= 3

\* C13: the layout pass over a null or undefined root ends in an error and
\* publishes nothing: `layout` stays what it was.
C13_MissingRootFails ==
    [][(RunLayoutEffect /\ data \in MissingRoots)
          => (thrown' = "TypeError" /\ layout' = layout /\ pass' = pass)]_vars

\* C13 witness: the effect has thrown for a null root given to a component
\* that had laid out a tree before.
C13_Witness ==
    /\ thrown = "TypeError"
    /\ data = [isNull |-> TRUE]
    /\ layout # NoLayout

\* C14: the layout pass leaves the tree as it was given: no title, no
\* children array, no missing field is changed.
C14_InputUnchanged ==
    [][RunLayoutEffect => (data' = data /\ (thrown' = "none" => pass'.data = data))]_vars

\* C14 witness: a tree with a node without children field has been laid out
\* and still lacks the field.
C14_Witness ==
    /\ Laid
    /\ ~effectPending
    /\ data = pass.data
    /\ data # AllEmpty(data)

\* The largest depth of a node of the tree.
MaxDepth(t) ==
    LET depth == Depths(t)
    IN CHOOSE m \in { depth[k] : k \in DOMAIN depth } : \A k \in DOMAIN depth : depth[k] <= m

\* C15: once the effect has run for a new value of `data`, the layout is
\* that of the new tree alone: its nodes, its links, its width and height.
C15_Superseded ==
    (~effectPending /\ thrown = "none") =>
        /\ pass # NoPass
        /\ pass.data = data
        /\ layout = pass.result
        /\ NodeOrder = PostOrder(data, data.root)
        /\ Len(layout.links) = CountNodes(data, data.root) - 1
        /\ layout.width = MaxDepth(data) * HORIZONTAL_SEPARATION + NODE_WIDTH + 40
        /\ layout.height = 100 * CountLeaves(data, data.root) + 40

\* C15 witness: the effect has run for a tree that replaced another one.
C15_Witness ==
    /\ lastPass = "other"
    /\ ~effectPending
    /\ Laid
    /\ data = pass.data
    /\ Len(layout.nodes) = MaxNewNodes

\* The object graph t has a node below itself: the nodes being numbered from
\* the root down, some child has no larger number than its parent.
HasCycle(t) == \E kc \in Pairs(t) : kc[2] <= kc[1]

Shown == view # Spinner /\ ~RenderDue

\* C17: the path drawn for a link starts at the link's source and ends at its
\* target; it is a cubic curve whose two control points have the x half way
\* between source and target, the first the y of the source, the second the
\* y of the target.
C17_ConnectorPath ==
    Shown =>
        /\ Len(view.paths) = Len(layout.links)
        /\ \A i \in 1..Len(layout.links) :
              LET source == layout.links[i].source
                  target == layout.links[i].target
                  d == view.paths[i].d
              IN /\ d.M = <<source.x, source.y>>
                 /\ Len(d.C) = 3
                 /\ d.C[3] = <<target.x, target.y>>
                 /\ 2 * d.C[1][1] = 2 * source.x + (target.x - source.x)
                 /\ d.C[1][2] = source.y
                 /\ d.C[2][1] = d.C[1][1]
                 /\ d.C[2][2] = target.y

\* C17 witness: a path on the screen whose ends are at different heights.
C17_Witness ==
    /\ Shown
    /\ \E i \in 1..Len(view.paths) :
          /\ view.paths[i].d.M[2] # view.paths[i].d.C[3][2]
          /\ view.paths[i].d.C[1][2] # view.paths[i].d.C[2][2]

\* C18: the box drawn for an entry of the node list is NODE_WIDTH wide and
\* NODE_HEIGHT high with its top left corner at (x, y - NODE_HEIGHT / 2), in
\* the colour levelColors[level mod 4]; the delays of the entrance animation
\* are 50 ms and 100 ms times the index; and rendering changes nothing of
\* the layout.
C18_Boxes ==
    /\ [](Shown =>
            /\ Len(levelColors) = 4
            /\ Len(view.boxes) = Len(layout.nodes)
            /\ \A i \in 1..Len(layout.nodes) :
                  LET n == layout.nodes[i]
                      box == view.boxes[i]
                  IN /\ box.x = n.x
                     /\ 2 * box.y = 2 * n.y - NODE_HEIGHT * YUnit
                     /\ box.width = NODE_WIDTH
                     /\ box.height = NODE_HEIGHT
                     /\ box.gradient = levelColors[(n.level % 4) + 1]
                     /\ box.animationDelay = 50 * (i - 1)
            /\ \A i \in 1..Len(layout.links) :
                  /\ view.paths[i].animationDelay = 100 * (i - 1)
                  /\ view.paths[i].d.M =
                        <<layout.links[i].source.x, layout.links[i].source.y>>
                  /\ view.paths[i].d.C[3] =
                        <<layout.links[i].target.x, layout.links[i].target.y>>)
    /\ [][Render => (layout' = layout /\ data' = data)]_vars

\* C18 witness: a box of level 4 is on the screen, in the first colour again.
C18_Witness ==
    /\ Shown
    /\ \E i \in 1..Len(layout.nodes) :
          /\ layout.nodes[i].level = 4
          /\ i > 1
          /\ view.boxes[i].gradient = levelColors[1]

Abs(a) == IF a < 0 THEN -a ELSE a

\* C19: no two boxes overlap.  Two nodes of one level have y at least
\* NODE_HEIGHT + VERTICAL_SEPARATION = 100 apart, two nodes of different
\* levels have x at least HORIZONTAL_SEPARATION = 220 apart.
C19_NoOverlap ==
    pass # NoPass =>
        \A i, j \in 1..Len(layout.nodes) :
            i < j =>
                LET a == layout.nodes[i]
                    b == layout.nodes[j]
                IN IF a.level = b.level
                   THEN Abs(a.y - b.y) >= (NODE_HEIGHT + VERTICAL_SEPARATION) * YUnit
                   ELSE Abs(a.x - b.x) >= HORIZONTAL_SEPARATION

\* C19 witness: two nodes of one level just 100 apart, and two nodes of
\* neighbouring levels at the same y.
C19_Witness ==
    /\ Laid
    /\ \E i, j \in 1..Len(layout.nodes) :
          /\ layout.nodes[i].level = layout.nodes[j].level
          /\ layout.nodes[i].level >= 2
          /\ layout.nodes[i].y - layout.nodes[j].y = 100 * YUnit
    /\ \E i, j \in 1..Len(layout.nodes) :
          /\ layout.nodes[i].level = layout.nodes[j].level + 1
          /\ layout.nodes[i].y = layout.nodes[j].y

\* The lessons stored under the key k were all generated for the grade and
\* subject of k.
OwnPlanUnder(k) ==
    localStorage[k] # NoItem =>
        \A i \in 1..Len(localStorage[k].savedPlan) :
            LET topic == localStorage[k].savedPlan[i].topic
            IN getStorageKey(topic.grade, topic.subject) = k

\* C20: the progress of the learning path is kept apart for each grade and
\* subject: the item stored under the key of a grade and subject holds only
\* a plan that was generated for that grade and subject.
C20_PerSelection == \A k \in StorageKeys : OwnPlanUnder(k)

\* The bytes of the string JSON.stringify gives for lib, counted item by
\* item: 3 for a summary, 5 for an exam, the brackets and the commas.
BytesOf(lib) ==
    LET n == Len(lib)
        exams == Cardinality({ i \in 1..n : lib[i].content = "ệ" })
    IN 2 + 3 * (n - exams) + 5 * exams + (IF n > 1 THEN n - 1 ELSE 0)

\* C21: addToLibrary rejects an item with which the serialized library would
\* be longer than STORAGE_LIMIT_BYTES bytes, and then leaves the library, the
\* stored library and libraryUsage as they are; what it stores is within the
\* limit; so libraryUsage.used <= libraryUsage.total at all times.
C21_Limit ==
    /\ [](/\ libraryUsage.used <= libraryUsage.total
          /\ libraryUsage.total = STORAGE_LIMIT_BYTES
          /\ BytesOf(library) <= STORAGE_LIMIT_BYTES)
    /\ [][handleSave =>
            /\ lastAdd' = "rejected" =>
                  /\ library' = library
                  /\ libraryUsage' = libraryUsage
                  /\ libraryStorage' = libraryStorage
                  /\ Len(library) > 0
                  /\ BytesOf(library) + 1 + 5 > STORAGE_LIMIT_BYTES
            /\ lastAdd' = "stored" =>
                  /\ Len(library') = Len(library) + 1
                  /\ BytesOf(library') <= STORAGE_LIMIT_BYTES
                  /\ libraryUsage'.used = BytesOf(library')
            /\ lastAdd' \in {"rejected", "stored"}]_vars

\* C21 witness: an item has been rejected, the library holding two items.
C21_Witness ==
    /\ lastAdd = "rejected"
    /\ Len(library) = 2
    /\ libraryUsage.used = BytesOf(library)
    /\ libraryStorage[userRole].parsed = library

\* C27: while a role is selected, the library in memory is what is stored
\* under the key of the role and libraryUsage.used is the byte length of the
\* stored string (an empty library and 0 if nothing is stored); the newest
\* item is first; with no role selected addToLibrary and removeFromLibrary
\* change nothing.
C27_LibraryIsStored ==
    /\ userRole # "null" =>
          /\ IF libraryStorage[userRole] = NoItem
             THEN library = <<>> /\ libraryUsage.used = 0
             ELSE /\ library = libraryStorage[userRole].parsed
                  /\ libraryUsage.used = libraryStorage[userRole].bytes
                  /\ libraryUsage.used = BytesOf(library)
          /\ \A i, j \in 1..Len(library) :
                i < j => library[i].timestamp >= library[j].timestamp
    /\ userRole = "null" =>
          /\ \A input \in SaveInputs :
                LET after == addToLibrary(ItemDataOf(input.component, input.content))
                IN /\ after.library = library
                   /\ after.libraryUsage = libraryUsage
                   /\ after.libraryStorage = libraryStorage
          /\ \A i \in 1..Len(library) :
                LET after == removeFromLibrary(library[i].id)
                IN /\ after.library = library
                   /\ after.libraryUsage = libraryUsage
                   /\ after.libraryStorage = libraryStorage

\* C27 witness: the teacher's library of two items is on the screen while
\* another library is stored for the student.
C27_Witness ==
    /\ userRole = "teacher"
    /\ Len(library) = 2
    /\ library[1].timestamp > library[2].timestamp
    /\ libraryStorage["student"] # NoItem
    /\ libraryStorage["student"].parsed # library

\* C28: no two items of the library have the same id.
C28_UniqueIds ==
    \A i, j \in 1..Len(library) : i # j => library[i].id # library[j].id

\* C29: the label of the save button is 'saved' only if the call of
\* addToLibrary before it has stored the item.
C29_SavedOnlyIfStored == saveButtonText = "saved" => lastAdd = "stored"

\* C30: the main layout is on the screen only with a language and a role
\* selected and, for a student, a goal; a role is selected only after a
\* language and a goal only by a student after the role; handleGoHome clears
\* the three, the splash screen comes next, and a student who selects the
\* role then has to select a goal again.
C30_Gating ==
    /\ [](/\ Screen = "MainLayout" =>
                /\ language # "null"
                /\ userRole # "null"
                /\ userRole = "student" => studentGoal # "null"
          /\ userRole # "null" => language # "null"
          /\ studentGoal # "null" => userRole = "student")
    /\ [][/\ handleGoHome =>
                /\ language' = "null" /\ userRole' = "null" /\ studentGoal' = "null"
                /\ Screen' = "SplashScreen"
          /\ language' # language => (Screen = "SplashScreen" \/ handleGoHome)
          /\ userRole' # userRole => (Screen = "RoleSelectionScreen" \/ handleGoHome)
          /\ studentGoal' # studentGoal =>
                (Screen = "GoalSelectionScreen" \/ handleGoHome)
          /\ (handleRoleSelect /\ userRole' = "student") =>
                Screen' = "GoalSelectionScreen"
          /\ (handleRoleSelect /\ userRole' = "teacher") =>
                Screen' = "MainLayout"]_vars

\* C30 witness: the splash screen after the main layout has been left with
\* an item in the library.
C30_Witness ==
    /\ Screen = "SplashScreen"
    /\ library # <<>>
    /\ studentGoal = "null"
    /\ userRole = "null"

\* C22: as long as there is a plan, what is stored under the key of the
\* selection is {savedPlan: plan, savedIndex: currentLessonIndex}, so it is
\* after a plan has arrived and after every mark-complete; no stored item
\* holds an empty plan; and selecting a grade and subject, or mounting the
\* component, where an item is stored sets the plan and the index to the
\* stored ones, leaves the item as it was and clears the lesson text, the
\* Word text, the images and their loading states.
StoredUnder(c) == localStorage[getStorageKey(c.grade, c.subject)]

C22_Saved ==
    /\ Len(plan) > 0 =>
          StoredUnder(config) = [savedPlan |-> plan,
                                 savedIndex |-> currentLessonIndex]
    /\ \A k \in StorageKeys :
          localStorage[k] # NoItem => Len(localStorage[k].savedPlan) > 0

C22_Restored ==
    (handleConfigChange \/ Remount) =>
        (StoredUnder(config') # NoItem =>
            /\ plan' = StoredUnder(config').savedPlan
            /\ currentLessonIndex' = StoredUnder(config').savedIndex
            /\ localStorage' = localStorage
            /\ markdownContent' = <<>>
            /\ wordContent' = <<>>
            /\ images' = {}
            /\ imageLoadingStates' = {})

PlanRequested ==
    /\ plan = <<>>
    /\ StoredUnder(config) = NoItem
    /\ isLoading = "plan"
    /\ \E r \in 1..Len(requests) :
          requests[r] = [kind |-> "plan", config |-> config]

C23_Start == generatePlan => PlanRequested'

C23_Failure ==
    (PlanFails /\ PlanRequested) =>
        /\ plan' = <<>>
        /\ error' = "Sorry, an error occurred while generating the learning plan."
        /\ isLoading' = "false"
        /\ StoredUnder(config)' = NoItem
        /\ localStorage' = localStorage

C23_Success ==
    PlanArrives =>
        /\ Len(plan') > 0
        /\ \A i \in 1..Len(plan') :
              ~plan'[i].completed /\ plan'[i].topic.no = i
        /\ currentLessonIndex' = 0
        /\ isLoading' = "false"

C24_Consistent ==
    Len(plan) > 0 =>
        /\ currentLessonIndex \in 0..(Len(plan) - 1)
        /\ \A i \in 0..(Len(plan) - 1) :
              /\ i < currentLessonIndex => plan[i + 1].completed
              /\ i > currentLessonIndex => ~plan[i + 1].completed

C24_Step ==
    handleMarkComplete =>
        /\ plan'[currentLessonIndex + 1].completed
        /\ IF currentLessonIndex < Len(plan) - 1
           THEN currentLessonIndex' = currentLessonIndex + 1
           ELSE /\ currentLessonIndex' = currentLessonIndex
                /\ markdownContent' = Append(markdownContent, Congratulations)
                /\ ~MarkCompleteOffered'

C24_Progress == []C24_Consistent /\ [][C24_Step]_vars

\* Both lessons of a plan are completed: the index is that of the last
\* lesson and the lesson on the screen ends with the completion message.
C24_Witness ==
    /\ Len(plan) = 2
    /\ currentLessonIndex = 1
    /\ plan[1].completed /\ plan[2].completed
    /\ markdownContent = <<LessonText, Congratulations>>

\* C25: mark-complete is never offered while the text on the screen is a
\* specialised review lesson, whatever the order in which a review lesson
\* and a lesson that were asked for at the same time arrive.
C25_NeverOverReview ==
    MarkCompleteOffered => markdownContent[1] # ReviewText

\* C26: no image is ever made for the text of a specialised review lesson:
\* the image calls under way are all for the text of a lesson of the plan.
C26_NoImageForReview ==
    \A r \in 1..Len(requests) :
        requests[r].kind = "image" => requests[r].text # ReviewText
====
